---- MODULE Spec2Model ----
(***************************************************************************)
(* Model of qam/margin.py: the surface-distance pipeline                   *)
(* (compute_bounding_box, crop_mask, compute_distances) and the summary    *)
(* of a distance list (summarize_surface_dists).                           *)
(*                                                                         *)
(* A volume is a record [shape, vox]: the array's shape and the set of its *)
(* non-zero voxels (0-based index triples).  A distance d (a float, the    *)
(* square root of an integer when spacing is integral) is held as its      *)
(* signed square d*|d|, an order-preserving encoding: d < t  iff           *)
(* Sq(d) < Sq(t), and d = 0 iff Sq(d) = 0.  +infinity is the value Inf,    *)
(* above every finite encoded distance of the model.                       *)
(***************************************************************************)
EXTENDS Integers, Sequences, FiniteSets, TLC

VARIABLES pc, args, ret, summary

vars == <<pc, args, ret, summary>>

(* ------------------------------ bounds --------------------------------- *)
\* shape of the input arrays
N0 == 3
N1 == 3
N2 == 3
\* largest exclusion_distance tried
MaxExclusionDistance == 1
\* longest free-standing distance list given to the summary
MaxLen == 3

(* --------------------------- values ----------------------------------- *)
\* Python's None
None == [none |-> TRUE]

\* np.Inf in the encoding of distances
Inf == 1000000

\* the signed square that encodes a distance given as an integer
Sq(d) == IF d < 0 THEN -(d * d) ELSE d * d

Range(n) == 0 .. (n - 1)

\* the index triples of an array of the given shape
Index(shape) == Range(shape[1]) \X Range(shape[2]) \X Range(shape[3])

\* the index at position n of C (row-major) order, the order numpy's boolean
\* indexing reads an array in
Unravel(shape, n) ==
    << n \div (shape[2] * shape[3]), (n \div shape[3]) % shape[2], n % shape[3] >>

\* all indices of an array in C order
COrder(shape) == [n \in 1 .. (shape[1] * shape[2] * shape[3]) |-> Unravel(shape, n - 1)]

Min(S) == CHOOSE x \in S : \A y \in S : x <= y
Max(S) == CHOOSE x \in S : \A y \in S : x >= y

(* ------------------------ compute_bounding_box ------------------------- *)
\* a | b on boolean arrays
Or(a, b) == a \cup b

\* np.nonzero of the max projection onto one axis
idx_nonzero(mask_all, axis) == { v[axis] : v \in mask_all }

\* compute_bounding_box that leaves mask_pred out of the union
compute_bounding_box_nopred(mask_gt, mask_pred, exclusion_zone) ==
    LET mask_all == Or(mask_gt.vox, exclusion_zone.vox)
    IN  IF mask_all = {}
        THEN [raised |-> "ValueError"]
        ELSE [raised |-> "",
              bbox_min |-> [a \in 1 .. 3 |-> Min(idx_nonzero(mask_all, a))],
              bbox_max |-> [a \in 1 .. 3 |-> Max(idx_nonzero(mask_all, a))]]

\* raises (np.min of an empty array) when the union is empty
compute_bounding_box(mask_gt, mask_pred, exclusion_zone) ==
    LET mask_all == Or(Or(mask_gt.vox, mask_pred.vox), exclusion_zone.vox)
    IN  IF mask_all = {}
        THEN [raised |-> "ValueError"]
        ELSE [raised |-> "",
              bbox_min |-> [a \in 1 .. 3 |-> Min(idx_nonzero(mask_all, a))],
              bbox_max |-> [a \in 1 .. 3 |-> Max(idx_nonzero(mask_all, a))]]

(* ------------------------------ crop_mask ------------------------------ *)
\* crop_mask that pads the low side: cropmask[1:, 1:, 1:] = mask[min : max + 1]
crop_mask_padlow(mask, bbox_min, bbox_max) ==
    [shape |-> [a \in 1 .. 3 |-> (bbox_max[a] - bbox_min[a]) + 2],
     vox   |-> { [a \in 1 .. 3 |-> v[a] - bbox_min[a] + 1] :
                   v \in { w \in mask.vox :
                             \A a \in 1 .. 3 : /\ bbox_min[a] <= w[a]
                                               /\ w[a] < bbox_max[a] + 1 } }]

\* cropmask = zeros((max - min) + 2); cropmask[0:-1, 0:-1, 0:-1] = mask[min : max + 1]
crop_mask(mask, bbox_min, bbox_max) ==
    [shape |-> [a \in 1 .. 3 |-> (bbox_max[a] - bbox_min[a]) + 2],
     vox   |-> { [a \in 1 .. 3 |-> v[a] - bbox_min[a]] :
                   v \in { w \in mask.vox :
                             \A a \in 1 .. 3 : /\ bbox_min[a] <= w[a]
                                               /\ w[a] < bbox_max[a] + 1 } }]

(* --------------------------- scipy.ndimage ----------------------------- *)
Abs(n) == IF n < 0 THEN -n ELSE n

\* generate_binary_structure(3, connectivity): the offsets within
\* `connectivity` axis steps of the centre (connectivity < 1 counts as 1)
generate_binary_structure(connectivity) ==
    LET c == IF connectivity < 1 THEN 1 ELSE connectivity
    IN  { d \in (-1 .. 1) \X (-1 .. 1) \X (-1 .. 1) :
            Abs(d[1]) + Abs(d[2]) + Abs(d[3]) <= c }

\* binary_erosion with border_value = 1: positions outside the array count
\* as foreground
binary_erosion_border1(mask, structure) ==
    { v \in mask.vox :
        \A d \in structure :
            LET w == <<v[1] + d[1], v[2] + d[2], v[3] + d[3]>>
            IN  w \in mask.vox \/ w \notin Index(mask.shape) }

\* binary_erosion with border_value = 0 (the default): a voxel survives when
\* every offset of the structure lands on a foreground voxel of the array;
\* positions outside the array count as background
binary_erosion(mask, structure) ==
    { v \in mask.vox :
        \A d \in structure : <<v[1] + d[1], v[2] + d[2], v[3] + d[3]>> \in mask.vox }

\* a ^ b on boolean arrays
Xor(a, b) == (a \ b) \cup (b \ a)

\* squared physical distance between two voxels
SqDist(v, w, sampling) ==
      ((v[1] - w[1]) * sampling[1]) * ((v[1] - w[1]) * sampling[1])
    + ((v[2] - w[2]) * sampling[2]) * ((v[2] - w[2]) * sampling[2])
    + ((v[3] - w[3]) * sampling[3]) * ((v[3] - w[3]) * sampling[3])

\* distance_transform_edt(~borders, sampling): at each voxel the distance to
\* the nearest zero of ~borders, that is to the nearest voxel of borders
distance_transform_edt(shape, borders, sampling) ==
    [v \in Index(shape) |-> Min({ SqDist(v, b, sampling) : b \in borders })]

(* --------------------------- compute_distances ------------------------- *)
\* borders_of with the erosion called with border_value = 1
borders_of_border1(mask, connectivity) ==
    Xor(mask.vox, binary_erosion_border1(mask, generate_binary_structure(connectivity)))

\* mask ^ binary_erosion(mask, generate_binary_structure(3, connectivity))
borders_of(mask, connectivity) ==
    Xor(mask.vox, binary_erosion(mask, generate_binary_structure(connectivity)))

\* distmask_of with the two signs exchanged
distmask_of_flipped(mask) ==
    [v \in Index(mask.shape) |-> IF v \in mask.vox THEN -1 ELSE 1]

\* distmask = mask.astype(int8); distmask[distmask == 0] = -1
distmask_of(mask) == [v \in Index(mask.shape) |-> IF v \in mask.vox THEN 1 ELSE -1]

\* signed_distmap without the multiplication by distmask
signed_distmap_unsigned(mask, borders, sampling) ==
    distance_transform_edt(mask.shape, borders, sampling)

\* the signed map: distance_transform_edt(~borders) * distmask
signed_distmap(mask, borders, sampling) ==
    LET edt == distance_transform_edt(mask.shape, borders, sampling)
        distmask == distmask_of(mask)
    IN  [v \in Index(mask.shape) |-> edt[v] * distmask[v]]

\* if borders.any(): the signed map, else np.Inf * np.ones(borders.shape)
distmap_of(mask, borders, sampling) ==
    IF borders # {}
    THEN signed_distmap(mask, borders, sampling)
    ELSE [v \in Index(mask.shape) |-> Inf]

\* excluded with <= in place of <
excluded_leq(distmap_exclusion, exclusion_distance) ==
    { v \in DOMAIN distmap_exclusion : distmap_exclusion[v] <= Sq(exclusion_distance) }

\* the voxels where distmap_exclusion < exclusion_distance
excluded(distmap_exclusion, exclusion_distance) ==
    { v \in DOMAIN distmap_exclusion : distmap_exclusion[v] < Sq(exclusion_distance) }

\* mask_out that sets the selected voxels instead of clearing them
mask_out_set(borders, distmap_exclusion, exclusion_distance) ==
    borders \cup excluded(distmap_exclusion, exclusion_distance)

\* borders[distmap_exclusion < exclusion_distance] = 0
mask_out(borders, distmap_exclusion, exclusion_distance) ==
    borders \ excluded(distmap_exclusion, exclusion_distance)

\* distmap[borders > 0]: the values at the border voxels, in C order
sample(distmap, borders, shape) ==
    LET at == SelectSeq(COrder(shape), LAMBDA v : v \in borders)
    IN  [i \in 1 .. Len(at) |-> distmap[at[i]]]

\* lines 62-71: the three volumes after the optional crop
cropped(a) ==
    IF ~a.crop
    THEN [raised |-> "", mask_gt |-> a.mask_gt, mask_pred |-> a.mask_pred,
          exclusion_zone |-> a.exclusion_zone]
    ELSE LET bbox == IF a.exclusion_zone # None
                     THEN compute_bounding_box(a.mask_gt, a.mask_pred, a.exclusion_zone)
                     ELSE compute_bounding_box(a.mask_gt, a.mask_pred, a.mask_gt)
         IN  IF bbox.raised # ""
             THEN [raised |-> bbox.raised]
             ELSE [raised |-> "",
                   mask_gt |-> crop_mask(a.mask_gt, bbox.bbox_min, bbox.bbox_max),
                   mask_pred |-> crop_mask(a.mask_pred, bbox.bbox_min, bbox.bbox_max),
                   exclusion_zone |->
                       IF a.exclusion_zone # None
                       THEN crop_mask(a.exclusion_zone, bbox.bbox_min, bbox.bbox_max)
                       ELSE None]

\* lines 73-123 on the (cropped) volumes
distances_of(mask_gt, mask_pred, exclusion_zone, a) ==
    LET borders_gt0 == borders_of(mask_gt, a.connectivity)
        borders_pred0 == borders_of(mask_pred, a.connectivity)
        distmap_gt == distmap_of(mask_gt, borders_gt0, a.spacing_mm)
        distmap_pred == distmap_of(mask_pred, borders_pred0, a.spacing_mm)
        has_zone == exclusion_zone # None
        borders_exclusion ==
            IF has_zone THEN borders_of(exclusion_zone, a.connectivity) ELSE {}
        distmap_exclusion ==
            IF has_zone
            THEN signed_distmap(exclusion_zone, borders_exclusion, a.spacing_mm)
            ELSE <<>>
        borders_pred ==
            IF has_zone
            THEN mask_out(borders_pred0, distmap_exclusion, a.exclusion_distance)
            ELSE borders_pred0
        borders_gt ==
            IF has_zone
            THEN mask_out(borders_gt0, distmap_exclusion, a.exclusion_distance)
            ELSE borders_gt0
    IN  IF borders_pred0 = {}
        THEN \* distmask_pred is assigned only in the branch of line 88
             [raised |-> "UnboundLocalError"]
        ELSE [raised |-> "",
              shape |-> mask_gt.shape,
              distances_gt_to_pred |-> sample(distmap_pred, borders_gt, mask_gt.shape),
              distances_pred_to_gt |-> sample(distmap_gt, borders_pred, mask_gt.shape),
              borders_gt |-> borders_gt,
              borders_pred |-> borders_pred,
              distmap_gt |-> distmap_gt,
              distmap_pred |-> distmap_pred,
              distmask_pred |-> distmask_of(mask_pred),
              border_exclusion |-> IF has_zone THEN borders_exclusion ELSE None,
              distmap_exclusion |-> IF has_zone THEN distmap_exclusion ELSE None]

compute_distances(a) ==
    LET c == cropped(a)
    IN  IF c.raised # ""
        THEN [raised |-> c.raised]
        ELSE distances_of(c.mask_gt, c.mask_pred, c.exclusion_zone, a)

(* ----------------------- summarize_surface_dists ----------------------- *)
\* a fraction count / nr_voxels, kept exact as numerator and denominator
Frac(count, nr_voxels) == [num |-> count, den |-> nr_voxels]

\* the threshold of the two upper coverage fractions, in mm
MarginMM == 5

\* np.sum(distances < 0.0) / nr_voxels
non_ablated(distances, nr_voxels) ==
    Frac(Len(SelectSeq(distances, LAMBDA d : d < Sq(0))), nr_voxels)

\* np.sum(distances < 5.0) / nr_voxels
insuffiecient_ablated(distances, nr_voxels) ==
    Frac(Len(SelectSeq(distances, LAMBDA d : d < Sq(MarginMM))), nr_voxels)

\* completely_ablated with > in place of >=
completely_ablated_gt(distances, nr_voxels) ==
    Frac(Len(SelectSeq(distances, LAMBDA d : d > Sq(MarginMM))), nr_voxels)

\* np.sum(distances >= 5.0) / nr_voxels
completely_ablated(distances, nr_voxels) ==
    Frac(Len(SelectSeq(distances, LAMBDA d : d >= Sq(MarginMM))), nr_voxels)

\* the record of statistics; np.nanmin raises on an empty list.  The values
\* are never NaN, so the nan-aware minimum and maximum are the plain ones.
\* (The quartiles interpolate between square roots and are left out of the
\* encoding; no other field depends on them.)
summarize_surface_dists(patient_id, lesion_id, surface_distance) ==
    LET distances == surface_distance.distances_gt_to_pred
        nr_voxels == Len(distances)
        values == { distances[i] : i \in 1 .. nr_voxels }
    IN  IF nr_voxels = 0
        THEN [raised |-> "ValueError"]
        ELSE [raised |-> "",
              Patient |-> patient_id,
              Lesion |-> lesion_id,
              nr_voxels |-> nr_voxels,
              min_distance |-> Min(values),
              max_distance |-> Max(values),
              x_less_than_0mm |-> non_ablated(distances, nr_voxels),
              x_equal_greater_than_0m |-> insuffiecient_ablated(distances, nr_voxels),
              x_equal_greater_than_5m |-> completely_ablated(distances, nr_voxels)]

\* arithmetic on the fractions
FracSum(x, y) == [num |-> x.num * y.den + y.num * x.den, den |-> x.den * y.den]
FracEq(x, y) == x.num * y.den = y.num * x.den
FracLeq(x, y) == x.num * y.den <= y.num * x.den
One == [num |-> 1, den |-> 1]
Zero == [num |-> 0, den |-> 1]

(* ------------------------------ inputs --------------------------------- *)
Shape == <<N0, N1, N2>>

\* the default of exclusion_distance
ExclusionDistanceDefault == 5

Vol(vox) == [shape |-> Shape, vox |-> vox]

\* the voxels of the box [lo .. hi], inclusive
Box(lo, hi) == { v \in Index(Shape) : \A a \in 1 .. 3 : lo[a] <= v[a] /\ v[a] <= hi[a] }

Far == <<N0 - 1, N1 - 1, N2 - 1>>

\* a voxel and its six face neighbours
Cross == { v \in Index(Shape) : Abs(v[1] - 1) + Abs(v[2] - 1) + Abs(v[3] - 1) <= 1 }

\* the regions tried as target and as predicted region: empty, single voxels
\* (corner, far corner, centre), a cross, the whole array, a box off the origin
Regions ==
    { {}, {<<0, 0, 0>>}, {Far}, {<<1, 1, 1>>}, Cross, Index(Shape), Box(<<1, 1, 1>>, Far) }

\* the regions tried together with an exclusion zone
ZoneTargets == { {<<0, 0, 0>>}, Cross, Box(<<1, 1, 1>>, Far) }
ZonePredicted == { {Far}, Cross, Index(Shape) }

\* the exclusion zones tried (non-empty: the distance transform of an empty
\* zone's shell is not defined by the library)
Zones == { Index(Shape), Cross }

Spacings == { <<1, 1, 1>>, <<1, 2, 5>> }

Options ==
    [spacing_mm : Spacings, connectivity : 1 .. 3, crop : BOOLEAN]

MakeArgs(g, p, z, o, e) ==
    [mask_gt |-> Vol(g), mask_pred |-> Vol(p), exclusion_zone |-> z,
     spacing_mm |-> o.spacing_mm, connectivity |-> o.connectivity, crop |-> o.crop,
     exclusion_distance |-> e]

\* calls without an exclusion zone (exclusion_distance keeps its default)
PlainInputs ==
    { MakeArgs(gp[1], gp[2], None, o, ExclusionDistanceDefault) : gp \in Regions \X Regions, o \in Options }

\* calls with an exclusion zone
ZoneInputs ==
    { MakeArgs(gp[1], gp[2], Vol(ze[1]), o, ze[2]) :
        gp \in ZoneTargets \X ZonePredicted,
        ze \in Zones \X (0 .. MaxExclusionDistance),
        o \in Options }

Inputs == PlainInputs \cup ZoneInputs

\* the values of the free-standing distance lists: below 0, 0, between 0 and
\* the margin, the margin, above it, and +infinity
DistValues == { Sq(-2), Sq(0), Sq(MarginMM - 1), Sq(MarginMM), Sq(MarginMM + 1), Inf }

RECURSIVE Lists(_)
Lists(n) ==
    IF n = 0 THEN { <<>> }
    ELSE Lists(n - 1) \cup { Append(l, d) : l \in { m \in Lists(n - 1) : Len(m) = n - 1 },
                                               d \in DistValues }

(* --------------------------- the pipeline ------------------------------ *)
Init ==
    /\ pc = "start"
    /\ args \in Inputs
    /\ ret = None
    /\ summary = None

Call_compute_distances ==
    /\ pc = "start"
    /\ ret' = compute_distances(args)
    /\ pc' = IF ret'.raised # "" THEN "raised" ELSE "returned"
    /\ UNCHANGED <<args, summary>>

Call_summarize_surface_dists ==
    /\ pc = "returned"
    /\ summary' = summarize_surface_dists("P", 1, ret)
    /\ pc' = IF summary'.raised # "" THEN "raised" ELSE "summarized"
    /\ UNCHANGED <<args, ret>>

Next == Call_compute_distances \/ Call_summarize_surface_dists

Spec == Init /\ [][Next]_vars

(* ----------------------- crop_mask on its own -------------------------- *)
Leq3(v, w) == \A a \in 1 .. 3 : v[a] <= w[a]

InitCrop ==
    /\ pc = "start"
    /\ args \in { [mask |-> Vol(r)] : r \in Regions }
    /\ ret = None
    /\ summary = None

Call_crop_mask ==
    /\ pc = "start"
    /\ \E bbox_min \in Index(Shape), bbox_max \in Index(Shape) :
          /\ Leq3(bbox_min, bbox_max)
          /\ ret' = [bbox_min |-> bbox_min, bbox_max |-> bbox_max,
                     cropmask |-> crop_mask(args.mask, bbox_min, bbox_max)]
    /\ pc' = "cropped"
    /\ UNCHANGED <<args, summary>>

SpecCrop == InitCrop /\ [][Call_crop_mask]_vars

(* ------------------ the summary of a free-standing list ---------------- *)
InitSumm ==
    /\ pc = "returned"
    /\ args = None
    /\ ret \in { [raised |-> "", distances_gt_to_pred |-> l] : l \in Lists(MaxLen) }
    /\ summary = None

SpecSumm == InitSumm /\ [][Call_summarize_surface_dists]_vars

(* ======================================================================= *)
(*                              Properties                                 *)
(* ======================================================================= *)
\* compute_distances has just returned its record
Returned == pc = "returned"

\* the volumes compute_distances works on (after the optional crop)
Work == cropped(args)

HasZone == args.exclusion_zone # None

\* the boundary shells before the exclusion stage
Shell_gt == borders_of(Work.mask_gt, args.connectivity)
Shell_pred == borders_of(Work.mask_pred, args.connectivity)

(* ------------------------------- C1 ------------------------------------ *)
\* the sign of a map on a region, as the claim has it: <= 0 inside, >= 0
\* outside, 0 on the shell
SignInsideNegative(distmap, mask, shell) ==
    \A v \in DOMAIN distmap :
        /\ v \in mask.vox => distmap[v] <= 0
        /\ v \notin mask.vox => distmap[v] >= 0
        /\ v \in shell => distmap[v] = 0

\* the sign as the code has it: >= 0 inside, <= 0 outside, 0 on the shell
SignInsidePositive(distmap, mask, shell) ==
    \A v \in DOMAIN distmap :
        /\ v \in mask.vox => distmap[v] >= 0
        /\ v \notin mask.vox => distmap[v] <= 0
        /\ v \in shell => distmap[v] = 0

\* C1 as stated: for every non-empty region, the returned signed distance
\* map is <= 0 inside the region, >= 0 outside it and 0 on its boundary shell.
C1_SignInsideNegative ==
    Returned =>
        /\ args.mask_gt.vox # {} =>
              SignInsideNegative(ret.distmap_gt, Work.mask_gt, Shell_gt)
        /\ args.mask_pred.vox # {} =>
              SignInsideNegative(ret.distmap_pred, Work.mask_pred, Shell_pred)

\* C1 amended: for every non-empty region, the returned signed distance map
\* is >= 0 at every voxel inside the region, <= 0 at every voxel outside it
\* and exactly 0 at every voxel of the region's boundary shell.
C1_SignInsidePositive ==
    Returned =>
        /\ args.mask_gt.vox # {} =>
              SignInsidePositive(ret.distmap_gt, Work.mask_gt, Shell_gt)
        /\ args.mask_pred.vox # {} =>
              SignInsidePositive(ret.distmap_pred, Work.mask_pred, Shell_pred)

\* a returned call whose target has a voxel strictly inside (off the shell,
\* map > 0), a shell voxel and a voxel outside (map < 0)
C1_Witness ==
    /\ Returned
    /\ \E v \in Work.mask_gt.vox \ Shell_gt : ret.distmap_gt[v] > 0
    /\ Shell_gt # {}
    /\ \E v \in DOMAIN ret.distmap_gt : v \notin Work.mask_gt.vox /\ ret.distmap_gt[v] < 0
    /\ \E v \in DOMAIN ret.distmap_pred : v \notin Work.mask_pred.vox /\ ret.distmap_pred[v] < 0

(* ------------------------------- C2 ------------------------------------ *)
AllInf(distmap) == \A v \in DOMAIN distmap : distmap[v] = Inf

\* C2: when one region is empty (so its boundary shell is empty) and the
\* other is not, compute_distances returns its record, and the signed
\* distance map of the empty region is +infinity everywhere; for the target
\* and for the predicted region alike.
C2_EmptyShellGivesInf ==
    (pc # "start" /\ (args.mask_gt.vox = {}) # (args.mask_pred.vox = {})) =>
        /\ ret.raised = ""
        /\ args.mask_gt.vox = {} => AllInf(ret.distmap_gt)
        /\ args.mask_pred.vox = {} => AllInf(ret.distmap_pred)

(* ------------------------------- C3 ------------------------------------ *)
\* the call with target and predicted region exchanged
Swapped(a) == [a EXCEPT !.mask_gt = a.mask_pred, !.mask_pred = a.mask_gt]

\* C3: the call with target and predicted region exchanged returns whenever
\* this call returns, and its two distance lists are this call's two lists
\* exchanged.
C3_Symmetry ==
    pc # "start" =>
        LET other == compute_distances(Swapped(args))
        IN  /\ (ret.raised = "") <=> (other.raised = "")
            /\ (ret.raised = "" /\ other.raised = "") =>
                  /\ ret.distances_gt_to_pred = other.distances_pred_to_gt
                  /\ ret.distances_pred_to_gt = other.distances_gt_to_pred

(* ------------------------------- C4 ------------------------------------ *)
\* squared physical distance from a voxel to the nearest voxel of a set
SqDistTo(v, S) == Min({ SqDist(v, b, args.spacing_mm) : b \in S })

\* the exclusion zone compute_distances works on, and its boundary shell
Zone == Work.exclusion_zone
Shell_zone == borders_of(Zone, args.connectivity)

\* C4 as stated: with an exclusion zone, a voxel of the target or predicted
\* boundary shell is removed iff its physical distance to the nearest voxel
\* of the zone's boundary shell is below exclusion_distance, on either side
\* of the zone's boundary.
C4_RemovedIffNear ==
    (Returned /\ HasZone) =>
        /\ \A v \in Shell_gt :
              v \notin ret.borders_gt <=>
                  SqDistTo(v, Shell_zone) < Sq(args.exclusion_distance)
        /\ \A v \in Shell_pred :
              v \notin ret.borders_pred <=>
                  SqDistTo(v, Shell_zone) < Sq(args.exclusion_distance)

\* a shell voxel stays when it lies inside the zone at a distance of
\* exclusion_distance or more from the zone's boundary shell
Stays(v) ==
    v \in Zone.vox /\ SqDistTo(v, Shell_zone) >= Sq(args.exclusion_distance)

\* C4 amended: with a (non-empty) exclusion zone and exclusion_distance >= 0,
\* a voxel of the target or predicted boundary shell is kept iff it lies
\* inside the zone at a physical distance >= exclusion_distance from the
\* nearest voxel of the zone's boundary shell; every shell voxel outside the
\* zone is removed, whatever its distance, and nothing is added to a shell.
C4_KeptIffInsideAndFar ==
    (Returned /\ HasZone) =>
        /\ ret.borders_gt = { v \in Shell_gt : Stays(v) }
        /\ ret.borders_pred = { v \in Shell_pred : Stays(v) }

\* a returned call with a zone where the shells hold a voxel inside the zone
\* that is kept, one inside the zone that is removed, and one outside the
\* zone at exclusion_distance or more that is removed
C4_Witness ==
    /\ Returned /\ HasZone
    /\ args.exclusion_distance > 0
    /\ \E v \in Shell_gt \cup Shell_pred :
          v \in Zone.vox /\ v \in ret.borders_gt \cup ret.borders_pred
    /\ \E v \in Shell_gt \cup Shell_pred :
          v \in Zone.vox /\ v \notin ret.borders_gt \cup ret.borders_pred
    /\ \E v \in Shell_gt \cup Shell_pred :
          /\ v \notin Zone.vox
          /\ SqDistTo(v, Shell_zone) >= Sq(args.exclusion_distance)
          /\ v \notin ret.borders_gt \cup ret.borders_pred

(* ------------------------------- C5 ------------------------------------ *)
\* number of occurrences of a value in a list
Count(l, x) == Cardinality({ i \in 1 .. Len(l) : l[i] = x })

\* every value occurs in l at most as often as in m
SubMultiset(l, m) == \A i \in 1 .. Len(l) : Count(l, l[i]) <= Count(m, l[i])

\* the same call without the exclusion zone
WithoutZone(a) == [a EXCEPT !.exclusion_zone = None]

\* C5: each of the two distance lists returned with an exclusion zone is a
\* sub-multiset of the corresponding list returned with exclusion_zone = None
\* (same target, predicted region, spacing, connectivity and crop flag).
C5_ExclusionMonotone ==
    (Returned /\ HasZone) =>
        LET plain == compute_distances(WithoutZone(args))
        IN  /\ plain.raised = ""
            /\ SubMultiset(ret.distances_gt_to_pred, plain.distances_gt_to_pred)
            /\ SubMultiset(ret.distances_pred_to_gt, plain.distances_pred_to_gt)

\* a returned call whose zone removes some, but not all, of the sampled
\* voxels of a list
C5_Witness ==
    /\ Returned /\ HasZone
    /\ Len(ret.distances_gt_to_pred) > 0
    /\ Len(ret.distances_gt_to_pred) <
          Len(compute_distances(WithoutZone(args)).distances_gt_to_pred)

(* ------------------------------- C6 ------------------------------------ *)
\* Chebyshev distance between two voxels
Cheb(v, w) == Max({ Abs(v[a] - w[a]) : a \in 1 .. 3 })

\* target and predicted region are non-empty, disjoint, and no voxel of one
\* touches a voxel of the other, not even at a corner
Gap ==
    /\ args.mask_gt.vox # {} /\ args.mask_pred.vox # {}
    /\ \A v \in args.mask_gt.vox : \A w \in args.mask_pred.vox : Cheb(v, w) > 1

Elems(l) == { l[i] : i \in 1 .. Len(l) }

\* C6 as stated: for regions separated by a gap and no exclusion zone, every
\* element of both distance lists is strictly positive and the summary
\* reports x_less_than_0mm == 0.0.
C6_GapPositive ==
    (pc = "summarized" /\ Gap /\ ~HasZone) =>
        /\ \A d \in Elems(ret.distances_gt_to_pred) : d > 0
        /\ \A d \in Elems(ret.distances_pred_to_gt) : d > 0
        /\ FracEq(summary.x_less_than_0mm, Zero)

\* C6 amended: for regions separated by a gap and no exclusion zone, every
\* element of both distance lists is strictly negative and the summary
\* reports x_less_than_0mm == 1.0.
C6_GapNegative ==
    (pc = "summarized" /\ Gap /\ ~HasZone) =>
        /\ \A d \in Elems(ret.distances_gt_to_pred) : d < 0
        /\ \A d \in Elems(ret.distances_pred_to_gt) : d < 0
        /\ FracEq(summary.x_less_than_0mm, One)

\* a summarized call on regions separated by a gap, with both lists non-empty
C6_Witness ==
    /\ pc = "summarized" /\ Gap /\ ~HasZone
    /\ ret.distances_gt_to_pred # <<>>
    /\ ret.distances_pred_to_gt # <<>>

(* ------------------------------- C7 ------------------------------------ *)
\* the list the summary was computed from
Summarized == ret.distances_gt_to_pred

\* C7: for every non-empty distance list, x_equal_greater_than_0m +
\* x_equal_greater_than_5m == 1.0 (the count of distances < 5 plus the count
\* of distances >= 5 equals nr_voxels) and x_less_than_0mm <=
\* x_equal_greater_than_0m, where x_equal_greater_than_0m is the fraction of
\* distances < 5.
C7_FractionsSumToOne ==
    (pc = "summarized") =>
        /\ FracEq(FracSum(summary.x_equal_greater_than_0m,
                          summary.x_equal_greater_than_5m), One)
        /\ summary.x_equal_greater_than_0m.num + summary.x_equal_greater_than_5m.num
              = summary.nr_voxels
        /\ FracLeq(summary.x_less_than_0mm, summary.x_equal_greater_than_0m)
        /\ summary.x_equal_greater_than_0m.den = Len(Summarized)
        /\ summary.x_equal_greater_than_0m.num =
              Cardinality({ i \in 1 .. Len(Summarized) : Summarized[i] < Sq(MarginMM) })

\* a summary of a list that holds a distance below 0, a distance of exactly
\* the margin and +infinity
C7_Witness ==
    /\ pc = "summarized"
    /\ \E i \in 1 .. Len(Summarized) : Summarized[i] < 0
    /\ \E i \in 1 .. Len(Summarized) : Summarized[i] = Sq(MarginMM)
    /\ \E i \in 1 .. Len(Summarized) : Summarized[i] = Inf

(* ------------------------------- C8 ------------------------------------ *)
\* C8: crop_mask(V, min, max) has shape (max - min) + 2 on each axis, holds
\* V[min + i] at every index i with 0 <= i <= max - min, and is background
\* on the last slice along each axis.
C8_CropShapeAndContent ==
    (pc = "cropped") =>
        LET c == ret.cropmask
            lo == ret.bbox_min
            hi == ret.bbox_max
        IN  /\ \A a \in 1 .. 3 : c.shape[a] = (hi[a] - lo[a]) + 2
            /\ c.vox \subseteq Index(c.shape)
            /\ \A i \in Index(c.shape) :
                  (\A a \in 1 .. 3 : i[a] <= hi[a] - lo[a]) =>
                      (i \in c.vox <=>
                          <<lo[1] + i[1], lo[2] + i[2], lo[3] + i[3]>> \in args.mask.vox)
            /\ \A i \in Index(c.shape) :
                  (\E a \in 1 .. 3 : i[a] = c.shape[a] - 1) => i \notin c.vox

\* a crop to a box off the origin that is smaller than the array, cuts
\* through the region and keeps some of it
C8_Witness ==
    /\ pc = "cropped"
    /\ ret.bbox_min # <<0, 0, 0>>
    /\ ret.bbox_max # ret.bbox_min
    /\ ret.cropmask.vox # {}
    /\ Cardinality(ret.cropmask.vox) < Cardinality(args.mask.vox)

(* ------------------------------- C9 ------------------------------------ *)
Neighbour(v, d) == <<v[1] + d[1], v[2] + d[2], v[3] + d[3]>>

\* some voxel of the region has a background voxel of the array among its
\* neighbours under the connectivity
TouchesBackground(mask) ==
    \E v \in mask.vox : \E d \in generate_binary_structure(args.connectivity) :
        Neighbour(v, d) \in Index(mask.shape) \ mask.vox

\* C9 as stated: for every non-empty V the boundary shell is empty iff V has
\* no voxel adjacent to a background voxel under the connectivity; so a V
\* that occupies the entire array (crop = False) has an empty shell.
C9_EmptyIffNoBackgroundNeighbour ==
    (Returned /\ ~HasZone) =>
        /\ args.mask_gt.vox # {} =>
              (ret.borders_gt = {} <=> ~TouchesBackground(Work.mask_gt))
        /\ args.mask_pred.vox # {} =>
              (ret.borders_pred = {} <=> ~TouchesBackground(Work.mask_pred))

\* the voxels of a region with a neighbour under the connectivity that is a
\* background voxel or lies outside the array
Outermost(mask) ==
    { v \in mask.vox : \E d \in generate_binary_structure(args.connectivity) :
        Neighbour(v, d) \notin mask.vox }

\* C9 amended: for every non-empty V and connectivity in 1..3 the boundary
\* shell holds exactly the voxels of V that have, under the connectivity, a
\* neighbour that is background or lies outside the array; it is never empty,
\* and a V that occupies the entire array has its outermost layer as shell.
C9_ShellIsOutermostLayer ==
    (Returned /\ ~HasZone) =>
        /\ args.mask_gt.vox # {} =>
              ret.borders_gt = Outermost(Work.mask_gt) /\ ret.borders_gt # {}
        /\ args.mask_pred.vox # {} =>
              ret.borders_pred = Outermost(Work.mask_pred) /\ ret.borders_pred # {}

\* a returned call without crop on a target that occupies the entire array:
\* the shell is not empty and leaves out an inner voxel
C9_Witness ==
    /\ Returned /\ ~HasZone /\ ~args.crop
    /\ args.mask_gt.vox = Index(args.mask_gt.shape)
    /\ ret.borders_gt # {}
    /\ ret.borders_gt # args.mask_gt.vox

(* ------------------------------- C10 ----------------------------------- *)
\* the same call with the other value of the crop flag
OtherCrop(a) == [a EXCEPT !.crop = ~a.crop]

\* the bounding box of the union of target and predicted region, and the
\* shape of a crop to it
UnionBox(a) == [min |-> Min({ v[a] : v \in args.mask_gt.vox \cup args.mask_pred.vox }),
                max |-> Max({ v[a] : v \in args.mask_gt.vox \cup args.mask_pred.vox })]

\* C10: with a non-empty target and a non-empty predicted region, and no
\* exclusion zone or a non-empty one, compute_distances returns the same two
\* distance lists (same values, same order) with crop = True as with
\* crop = False; without an exclusion zone the crop box is the bounding box
\* of the union of target and predicted region.
C10_CropEquivalence ==
    (Returned /\ args.mask_gt.vox # {} /\ args.mask_pred.vox # {}) =>
        LET other == compute_distances(OtherCrop(args))
        IN  /\ other.raised = ""
            /\ ret.distances_gt_to_pred = other.distances_gt_to_pred
            /\ ret.distances_pred_to_gt = other.distances_pred_to_gt
            /\ (args.crop /\ ~HasZone) =>
                  \A a \in 1 .. 3 : ret.shape[a] = (UnionBox(a).max - UnionBox(a).min) + 2

\* a returned call with crop = True whose crop box starts off the origin and
\* is smaller than the array, with both lists non-empty
C10_Witness ==
    /\ Returned /\ args.crop
    /\ args.mask_gt.vox # {} /\ args.mask_pred.vox # {}
    /\ \A a \in 1 .. 3 : UnionBox(a).min > 0
    /\ \A a \in 1 .. 3 : UnionBox(a).max - UnionBox(a).min + 1 < args.mask_gt.shape[a]
    /\ Len(ret.distances_gt_to_pred) > 1
    /\ Len(ret.distances_pred_to_gt) > 0
    /\ ret.distances_gt_to_pred # ret.distances_pred_to_gt

====
